---------------------------- MODULE Spec2Model ----------------------------
(***************************************************************************)
(* A model of a2a_gui_tool/main.py: the configuration widgets (agent card, *)
(* extended agent card, server configuration, relationships), the dynamic  *)
(* entry lists, and MainWindow.handle_generate_code (validation followed   *)
(* by emission of the generated source text).                              *)
(*                                                                         *)
(* Text is a sequence of pieces.  A piece typed by the user is one         *)
(* character; a piece coming from a template of the generator is the       *)
(* template's literal text.  A line break is always the piece "\n" of its  *)
(* own, so that the displayed text can be cut into its physical lines.     *)
(***************************************************************************)
EXTENDS Integers, Sequences, FiniteSets, TLC

\* ------------------------------------------------------------------ bounds

\* Entry widgets (skills, relationships) created in the interactive session.
MaxSessionAdds == 1
\* Entry widgets created in the session that only works on the entry lists.
MaxAdds == 3
\* Longest skills list drawn as an input of a generate request.
MaxSkills == 2
\* Longest custom task store path drawn as an input of a generate request.
MaxPathLen == 5
\* Longest list text (tags, examples, modes) drawn as an input.
MaxListLen == 5
\* Longest relationships list drawn as an input of a generate request.
MaxRelationships == 2
\* Longest description drawn as an input of a generate request.
MaxTextLen == 4
\* Longest executor class name drawn as an input of a generate request.
MaxNameLen == 3

\* -------------------------------------------------------------------- text

NL == "\n"
Empty == <<>>

\* str.strip() strips these (the whitespace a Qt text field can hold).
IsSpace(c) == c \in {" ", NL, "\t"}

RECURSIVE LStrip(_)
LStrip(s) ==
    IF s # <<>> /\ IsSpace(Head(s)) THEN LStrip(Tail(s)) ELSE s

RECURSIVE RStrip(_)
RStrip(s) ==
    IF s # <<>> /\ IsSpace(s[Len(s)]) THEN RStrip(SubSeq(s, 1, Len(s) - 1)) ELSE s

\* str.strip()
Strip(s) == RStrip(LStrip(s))

\* c in s
Contains(s, c) == \E i \in 1..Len(s) : s[i] = c

\* Position of the last occurrence of c in s (0 when there is none).
LastIndexOf(s, c) ==
    IF Contains(s, c)
    THEN CHOOSE i \in 1..Len(s) :
            s[i] = c /\ \A j \in (i + 1)..Len(s) : s[j] # c
    ELSE 0

\* s.rsplit(c, 1): <<s>> without c, else <<before the last c, after it>>.
RSplit1(s, c) ==
    LET k == LastIndexOf(s, c)
    IN  IF k = 0 THEN <<s>>
        ELSE <<SubSeq(s, 1, k - 1), SubSeq(s, k + 1, Len(s))>>

\* s.split(seps) from position start on: the tokens between separators,
\* empty ones included.
RECURSIVE SplitFrom(_, _, _)
SplitFrom(s, seps, start) ==
    LET found == {i \in start..Len(s) : s[i] \in seps}
    IN  IF found = {} THEN <<SubSeq(s, start, Len(s))>>
        ELSE LET k == CHOOSE i \in found : \A j \in found : i <= j
             IN  <<SubSeq(s, start, k - 1)>> \o SplitFrom(s, seps, k + 1)

Split(s, seps) == SplitFrom(s, seps, 1)

\* "\n".join(lines)
RECURSIVE Join(_)
Join(lines) ==
    IF lines = <<>> THEN <<>>
    ELSE IF Len(lines) = 1 THEN lines[1]
         ELSE lines[1] \o <<NL>> \o Join(Tail(lines))

\* The physical lines of a displayed text.
PhysicalLines(text) == Split(text, {NL})

\* Python's str(bool) inside an f-string.
PyBool(b) == IF b THEN "True" ELSE "False"

\* ----------------------------------------------------------- formatting

\* The quote repr() puts around a str: a double quote when the str holds a
\* single quote and no double quote, else a single quote.
PyQuote(s) == IF Contains(s, "'") /\ ~Contains(s, "\"") THEN "\"" ELSE "'"

\* The body of repr(s): a backslash before a backslash and before the
\* enclosing quote, a tab as \t.
RECURSIVE PyEscape(_, _)
PyEscape(s, q) ==
    IF s = <<>> THEN <<>>
    ELSE (IF Head(s) = "\\" \/ Head(s) = q THEN <<"\\", Head(s)>>
          ELSE IF Head(s) = "\t" THEN <<"\\", "t">>
          ELSE <<Head(s)>>)
         \o PyEscape(Tail(s), q)

\* repr() of a str of printable characters and tabs.
PyRepr(s) == <<PyQuote(s)>> \o PyEscape(s, PyQuote(s)) \o <<PyQuote(s)>>

RECURSIVE JoinItems(_)
JoinItems(items) ==
    IF items = <<>> THEN <<>>
    ELSE IF Len(items) = 1 THEN PyRepr(items[1])
         ELSE PyRepr(items[1]) \o <<", ">> \o JoinItems(Tail(items))

\* str() of a list of str, as the f-string renders it.
PyListStr(items) ==
    IF items = <<>> THEN <<"[]">> ELSE <<"[">> \o JoinItems(items) \o <<"]">>

\* [item.strip() for item in re.split(r'[,\n]', s) if item.strip()]
RECURSIVE StripNonEmpty(_)
StripNonEmpty(tokens) ==
    IF tokens = <<>> THEN <<>>
    ELSE IF Strip(Head(tokens)) # <<>>
         THEN <<Strip(Head(tokens))>> \o StripNonEmpty(Tail(tokens))
         ELSE StripNonEmpty(Tail(tokens))

\* The items of a text that is cut at commas only.
ParseItemsAtCommas(s) == StripNonEmpty(Split(s, {","}))

ParseItems(s) == StripNonEmpty(Split(s, {",", NL}))

format_string_list_for_code(input_str) ==
    IF Strip(input_str) = <<>> THEN <<"[]">>
    ELSE PyListStr(ParseItems(input_str))

\* A formatter that knows the double-quoted literal only.
format_in_double_quotes(input_str) == <<"\"">> \o input_str \o <<"\"">>

format_single_string_for_code(input_str) ==
    IF Contains(input_str, NL)
    THEN <<"\"\"\"">> \o input_str \o <<"\"\"\"">>
    ELSE <<"\"">> \o input_str \o <<"\"">>

\* ------------------------------------------------------------------ state

VARIABLES
    agent_card,         \* AgentCardWidget: its line edits, text edit, checkboxes
    extended_card,      \* ExtendedAgentCardWidget: name, description, version
    skills,             \* the two skills layouts: skills.card, skills.extended
    server,             \* ServerConfigWidget: executor, combo box, custom path
    relationships,      \* AgentRelationshipsWidget.relationships_layout
    generated_code,     \* the text shown by generated_code_text_edit
    current_tab,        \* tab_widget's current tab
    outcome,            \* what the last operation did: idle, generated or a warning
    nextWid             \* entry widgets created so far

vars == <<agent_card, extended_card, skills, server, relationships,
          generated_code, current_tab, outcome, nextWid>>

config == <<agent_card, extended_card, skills, server, relationships>>

SkillLists == {"card", "extended"}

Tabs == {"Agent Card", "Extended Agent Card", "Server Configuration",
         "Agent Relationships", "Generated Code"}

TaskStoreOptions == {"InMemoryTaskStore", "Custom"}

\* outcome.boxes: the warning boxes the last operation showed, in order.
Idle == [kind |-> "idle", boxes |-> <<>>]
Generated == [kind |-> "generated", boxes |-> <<>>]
Warning(m) == [kind |-> "warning", boxes |-> <<m>>]

\* A SkillEntryWidget as constructed: every field blank.
NewSkill(w) ==
    [wid |-> w, id |-> <<>>, name |-> <<>>, description |-> <<>>,
     tags |-> <<>>, examples |-> <<>>]

\* A RelationshipEntryWidget as constructed.
NewRelationship(w) == [wid |-> w, name |-> <<>>, url |-> <<>>]

BlankCard ==
    [name |-> <<>>, url |-> <<>>, version |-> <<>>, description |-> <<>>,
     default_input_modes |-> <<>>, default_output_modes |-> <<>>,
     streaming |-> FALSE, push_notifications |-> FALSE]

BlankExtended == [name |-> <<>>, description |-> <<>>, version |-> <<>>]

BlankServer ==
    [agent_executor |-> <<>>, task_store_combo |-> "InMemoryTaskStore",
     custom_task_store |-> <<>>]

\* MainWindow.init_ui: blank widgets, empty layouts, the first tab current.
Init ==
    /\ agent_card = BlankCard
    /\ extended_card = BlankExtended
    /\ skills = [card |-> <<>>, extended |-> <<>>]
    /\ server = BlankServer
    /\ relationships = <<>>
    /\ generated_code = <<>>
    /\ current_tab = "Agent Card"
    /\ outcome = Idle
    /\ nextWid = 0

\* --------------------------------------------------------------- get_data

\* The combo box's item texts, as the characters a custom path is compared with.
InMemoryTaskStoreText ==
    <<"I", "n", "M", "e", "m", "o", "r", "y", "T", "a", "s", "k",
      "S", "t", "o", "r", "e">>

CustomText == <<"C", "u", "s", "t", "o", "m">>

OptionText(option) ==
    IF option = "Custom" THEN CustomText ELSE InMemoryTaskStoreText

\* SkillEntryWidget.get_data
SkillEntryData(w) ==
    [id |-> Strip(w.id),
     name |-> Strip(w.name),
     description |-> Strip(w.description),
     tags |-> format_string_list_for_code(w.tags),
     examples |-> format_string_list_for_code(w.examples)]

\* The loop over a skills layout: one record per entry widget, in layout order.
SkillsData(layout) == [i \in 1..Len(layout) |-> SkillEntryData(layout[i])]

\* AgentCardWidget.get_data
AgentCardData(c, layout) ==
    [name |-> Strip(c.name),
     description |-> Strip(c.description),
     url |-> Strip(c.url),
     version |-> Strip(c.version),
     defaultInputModes |-> format_string_list_for_code(c.default_input_modes),
     defaultOutputModes |-> format_string_list_for_code(c.default_output_modes),
     capabilities |-> [streaming |-> c.streaming,
                       pushNotifications |-> c.push_notifications],
     skills |-> SkillsData(layout)]

\* ExtendedAgentCardWidget.get_data
ExtendedCardData(e, layout) ==
    [name |-> Strip(e.name),
     description |-> Strip(e.description),
     version |-> Strip(e.version),
     skills |-> SkillsData(layout)]

\* ServerConfigWidget.get_data
\* A get_data that reads the custom path whenever one was typed.
ServerDataCustomTextFirst(s) ==
    [agent_executor_class_name |-> Strip(s.agent_executor),
     task_store |-> IF s.task_store_combo = "Custom" \/ Strip(s.custom_task_store) # <<>>
                    THEN Strip(s.custom_task_store)
                    ELSE OptionText(s.task_store_combo)]

ServerData(s) ==
    [agent_executor_class_name |-> Strip(s.agent_executor),
     task_store |-> IF s.task_store_combo = "Custom"
                    THEN Strip(s.custom_task_store)
                    ELSE OptionText(s.task_store_combo)]

\* RelationshipEntryWidget.get_data
RelationshipEntryData(w) == [name |-> Strip(w.name), url |-> Strip(w.url)]

\* AgentRelationshipsWidget.get_data
RelationshipsData(layout) ==
    [relationships |->
        [i \in 1..Len(layout) |-> RelationshipEntryData(layout[i])]]

\* ------------------------------------------------------------- validation

NoWarning == <<>>

\* A skill loop that numbers the skills from 0, as enumerate() does.
RECURSIVE ValidateSkillsFromZero(_, _, _)
ValidateSkillsFromZero(skills_data, i, label) ==
    IF i >= Len(skills_data) THEN NoWarning
    ELSE IF skills_data[i + 1].id = <<>>
         THEN <<label, " - Skill #", ToString(i), ": ID is required.">>
    ELSE IF skills_data[i + 1].name = <<>>
         THEN <<label, " - Skill #", ToString(i), ": Name is required.">>
    ELSE ValidateSkillsFromZero(skills_data, i + 1, label)

\* One of the two skill loops of the validation: enumerate() from index i,
\* the first skill with an empty id, then an empty name, ends the request.
RECURSIVE ValidateSkills(_, _, _)
ValidateSkills(skills_data, i, label) ==
    IF i >= Len(skills_data) THEN NoWarning
    ELSE IF skills_data[i + 1].id = <<>>
         THEN <<label, " - Skill #", ToString(i + 1), ": ID is required.">>
    ELSE IF skills_data[i + 1].name = <<>>
         THEN <<label, " - Skill #", ToString(i + 1), ": Name is required.">>
    ELSE ValidateSkills(skills_data, i + 1, label)

ValidateCardSkills(agent_card_data) ==
    ValidateSkills(agent_card_data.skills, 0, "Agent Card")

\* A validation that forgets the extended card's skills.
ValidateExtendedSkillsSkipped(extended_card_data) == NoWarning

ValidateExtendedSkills(extended_card_data) ==
    IF extended_card_data.skills # <<>>
    THEN ValidateSkills(extended_card_data.skills, 0, "Extended Agent Card")
    ELSE NoWarning

\* A validation that has no rule for the agent executor.
ValidateWithoutExecutor(agent_card_data, extended_card_data, server_data, combo) ==
    IF agent_card_data.name = <<>>
    THEN <<"Agent Card: Name is required.">>
    ELSE IF agent_card_data.url = <<>>
    THEN <<"Agent Card: URL is required.">>
    ELSE IF ValidateCardSkills(agent_card_data) # NoWarning
    THEN ValidateCardSkills(agent_card_data)
    ELSE IF ValidateExtendedSkills(extended_card_data) # NoWarning
    THEN ValidateExtendedSkills(extended_card_data)
    ELSE IF combo = "Custom" /\ server_data.task_store = <<>>
    THEN <<"Server Configuration: Custom Task Store Class is required when 'Custom' is selected.">>
    ELSE NoWarning

\* A validation that looks at the url before the name.
ValidateUrlFirst(agent_card_data, extended_card_data, server_data, combo) ==
    IF agent_card_data.url = <<>>
    THEN <<"Agent Card: URL is required.">>
    ELSE IF agent_card_data.name = <<>>
    THEN <<"Agent Card: Name is required.">>
    ELSE IF ValidateCardSkills(agent_card_data) # NoWarning
    THEN ValidateCardSkills(agent_card_data)
    ELSE IF ValidateExtendedSkills(extended_card_data) # NoWarning
    THEN ValidateExtendedSkills(extended_card_data)
    ELSE IF server_data.agent_executor_class_name = <<>>
    THEN <<"Server Configuration: Agent Executor Class Name is required.">>
    ELSE IF combo = "Custom" /\ server_data.task_store = <<>>
    THEN <<"Server Configuration: Custom Task Store Class is required when 'Custom' is selected.">>
    ELSE NoWarning

\* The validation checks of handle_generate_code: the message of the first
\* check that fails, NoWarning when every check passes.
Validate(agent_card_data, extended_card_data, server_data, combo) ==
    IF agent_card_data.name = <<>>
    THEN <<"Agent Card: Name is required.">>
    ELSE IF agent_card_data.url = <<>>
    THEN <<"Agent Card: URL is required.">>
    ELSE IF ValidateCardSkills(agent_card_data) # NoWarning
    THEN ValidateCardSkills(agent_card_data)
    ELSE IF ValidateExtendedSkills(extended_card_data) # NoWarning
    THEN ValidateExtendedSkills(extended_card_data)
    ELSE IF server_data.agent_executor_class_name = <<>>
    THEN <<"Server Configuration: Agent Executor Class Name is required.">>
    ELSE IF combo = "Custom" /\ server_data.task_store = <<>>
    THEN <<"Server Configuration: Custom Task Store Class is required when 'Custom' is selected.">>
    ELSE NoWarning

\* --------------------------------------------------------------- emission

\* ", ".join(parts)
RECURSIVE JoinComma(_)
JoinComma(parts) ==
    IF parts = <<>> THEN <<>>
    ELSE IF Len(parts) = 1 THEN parts[1]
         ELSE parts[1] \o <<", ">> \o JoinComma(Tail(parts))

\* Concatenation of a sequence of blocks of lines.
RECURSIVE Flatten(_)
Flatten(blocks) ==
    IF blocks = <<>> THEN <<>> ELSE Head(blocks) \o Flatten(Tail(blocks))

ImportLines ==
    << <<"from a2a.sdk.public_api.agent import AgentCard, AgentSkill, AgentCapabilities, ExtendedAgentCard">>,
       <<"from a2a.sdk.public_api.http import DefaultRequestHandler, A2AStarletteApplication">>,
       <<"from a2a.sdk.public_api.task_store.memory import InMemoryTaskStore">> >>

\* An import that cuts the path at its first dot.
CustomImportLinesAtFirstDot(task_store_path) ==
    IF /\ task_store_path # InMemoryTaskStoreText
       /\ task_store_path # CustomText
       /\ Contains(task_store_path, ".")
    THEN LET parts == Split(task_store_path, {"."})
         IN  << <<"from ">> \o parts[1] \o <<" import ">>
                    \o SubSeq(task_store_path, Len(parts[1]) + 2,
                              Len(task_store_path)) >>
    ELSE <<>>

\* The import of a custom task store: only for a value holding a '.'.
CustomImportLines(task_store_path) ==
    IF /\ task_store_path # InMemoryTaskStoreText
       /\ task_store_path # CustomText
       /\ Contains(task_store_path, ".")
    THEN LET custom_task_store_module == RSplit1(task_store_path, ".")[1]
             custom_task_store_class == RSplit1(task_store_path, ".")[2]
         IN  << <<"from ">> \o custom_task_store_module
                    \o <<" import ">> \o custom_task_store_class >>
    ELSE <<>>

CapabilitiesLines(capabilities) ==
    << <<NL, "# --- Agent Capabilities Definition ---">>,
       <<"agent_capabilities = AgentCapabilities(">>,
       <<"    streaming=", PyBool(capabilities.streaming), ",">>,
       <<"    push_notifications=", PyBool(capabilities.pushNotifications), ",">>,
       <<")">> >>

\* The AgentSkill(...) constructor call of one skill.
SkillLines(skill) ==
    << <<"    AgentSkill(">>,
       <<"        id=">> \o format_single_string_for_code(skill.id) \o <<",">>,
       <<"        name=">> \o format_single_string_for_code(skill.name) \o <<",">>,
       <<"        description=">>
            \o format_single_string_for_code(skill.description) \o <<",">>,
       <<"        tags=">> \o skill.tags \o <<",">>,
       <<"        examples=">> \o skill.examples \o <<",">>,
       <<"    ),">> >>

\* The loop over a skills list: one constructor call per skill, in order.
AllSkillLines(skills_data) ==
    Flatten([i \in 1..Len(skills_data) |-> SkillLines(skills_data[i])])

CardSkillsLines(skills_data) ==
    << <<NL, "# --- Main Agent Card Skills Definition ---">> >>
    \o (IF skills_data # <<>>
        THEN << <<"agent_skills = [">> >> \o AllSkillLines(skills_data)
                \o << <<"]">> >>
        ELSE << <<"agent_skills = []">> >>)

CardLines(agent_card_data) ==
    << <<NL, "# --- Main Agent Card Definition ---">>,
       <<"public_agent_card = AgentCard(">>,
       <<"    name=">> \o format_single_string_for_code(agent_card_data.name) \o <<",">>,
       <<"    description=">>
            \o format_single_string_for_code(agent_card_data.description) \o <<",">>,
       <<"    url=">> \o format_single_string_for_code(agent_card_data.url) \o <<",">>,
       <<"    version=">>
            \o format_single_string_for_code(agent_card_data.version) \o <<",">>,
       <<"    default_input_modes=">> \o agent_card_data.defaultInputModes \o <<",">>,
       <<"    default_output_modes=">> \o agent_card_data.defaultOutputModes \o <<",">>,
       <<"    capabilities=agent_capabilities,">>,
       <<"    skills=agent_skills,">>,
       <<")">> >>

\* An update dictionary that takes every attribute, empty or not.
AttributeUpdatePartsUnconditional(extended_card_data) ==
    << <<"name=">> \o format_single_string_for_code(extended_card_data.name),
       <<"description=">>
            \o format_single_string_for_code(extended_card_data.description),
       <<"version=">> \o format_single_string_for_code(extended_card_data.version) >>

\* extended_card_update_dict rendered as "k=v" parts, in insertion order.
AttributeUpdateParts(extended_card_data) ==
    (IF extended_card_data.name # <<>>
     THEN << <<"name=">> \o format_single_string_for_code(extended_card_data.name) >>
     ELSE <<>>)
    \o (IF extended_card_data.description # <<>>
        THEN << <<"description=">>
                \o format_single_string_for_code(extended_card_data.description) >>
        ELSE <<>>)
    \o (IF extended_card_data.version # <<>>
        THEN << <<"version=">>
                \o format_single_string_for_code(extended_card_data.version) >>
        ELSE <<>>)

\* update_str_parts once the extended skills were looked at.
UpdateStrParts(extended_card_data) ==
    AttributeUpdateParts(extended_card_data)
    \o (IF extended_card_data.skills # <<>>
        THEN << <<"skills=extended_agent_skills">> >>
        ELSE <<>>)

ExtendedSkillsLines(extended_card_data) ==
    IF extended_card_data.skills # <<>>
    THEN << <<"extended_agent_skills = [">> >>
         \o AllSkillLines(extended_card_data.skills) \o << <<"]">> >>
    ELSE <<>>

ExtendedCardLines(extended_card_data) ==
    << <<NL, "# --- Extended Agent Card Definition (if any overrides/additions) ---">> >>
    \o ExtendedSkillsLines(extended_card_data)
    \o (IF UpdateStrParts(extended_card_data) # <<>>
        THEN << <<"extended_public_agent_card = ExtendedAgentCard.from_agent_card(public_agent_card, ">>
                \o JoinComma(UpdateStrParts(extended_card_data)) \o <<")">> >>
        ELSE << <<"# No extended agent card attributes or skills defined to override/add.">>,
                <<"extended_public_agent_card = None">> >>)

\* task_store_instance_code
TaskStoreInstanceCode(task_store_val) ==
    IF task_store_val = InMemoryTaskStoreText
    THEN <<"InMemoryTaskStore()">>
    ELSE IF task_store_val # CustomText
    THEN LET parts == Split(task_store_val, {"."})
         IN  parts[Len(parts)] \o <<"()">>
    ELSE <<"None # Default or TODO: Specify Custom Task Store instance">>

AgentExecutorClassName(server_data) ==
    IF server_data.agent_executor_class_name # <<>>
    THEN server_data.agent_executor_class_name
    ELSE <<"MyAgentExecutor">>

RequestHandlerLines(server_data) ==
    << <<NL, "# --- Request Handler Definition ---">>,
       <<"# TODO: Define your AgentExecutor class (e.g., ">>
            \o AgentExecutorClassName(server_data) \o <<")">>,
       <<"http_handler = DefaultRequestHandler(">>,
       <<"    agent_executor=">> \o AgentExecutorClassName(server_data)
            \o <<"(), # Assuming it's instantiated here">>,
       <<"    task_store=">> \o TaskStoreInstanceCode(server_data.task_store) \o <<",">>,
       <<")">> >>

ApplicationLines ==
    << <<NL, "# --- Server Application Definition ---">>,
       <<"app = A2AStarletteApplication(">>,
       <<"    agent_card=public_agent_card,">>,
       <<"    http_handler=http_handler,">>,
       <<"    extended_agent_card=extended_public_agent_card, # Will be None if not defined">>,
       <<")">> >>

RelationshipLine(rel) ==
    <<"#    '">> \o rel.name \o <<"': '">> \o rel.url \o <<"',">>

\* A relationships block that leaves out the unnamed relationships.
RelationshipsLinesNamedOnly(relationships_data) ==
    LET named == SelectSeq(relationships_data.relationships,
                           LAMBDA rel : rel.name # <<>>)
    IN  << <<NL, "# --- Defined Agent Relationships (Informational) ---">> >>
        \o (IF named # <<>>
            THEN << <<"# {">> >>
                 \o [i \in 1..Len(named) |-> RelationshipLine(named[i])]
                 \o << <<"# }">> >>
            ELSE << <<"# No agent relationships defined.">> >>)

RelationshipsLines(relationships_data) ==
    << <<NL, "# --- Defined Agent Relationships (Informational) ---">> >>
    \o (IF relationships_data.relationships # <<>>
        THEN << <<"# {">> >>
             \o [i \in 1..Len(relationships_data.relationships) |->
                    RelationshipLine(relationships_data.relationships[i])]
             \o << <<"# }">> >>
        ELSE << <<"# No agent relationships defined.">> >>)

\* A generator that writes the request handler before the extended card.
CodeLinesHandlerFirst(agent_card_data, extended_card_data, server_data, relationships_data) ==
    ImportLines
    \o CustomImportLines(server_data.task_store)
    \o CapabilitiesLines(agent_card_data.capabilities)
    \o CardSkillsLines(agent_card_data.skills)
    \o CardLines(agent_card_data)
    \o RequestHandlerLines(server_data)
    \o ExtendedCardLines(extended_card_data)
    \o ApplicationLines
    \o RelationshipsLines(relationships_data)

\* The list `code` at the end of the code generation.
CodeLines(agent_card_data, extended_card_data, server_data, relationships_data) ==
    ImportLines
    \o CustomImportLines(server_data.task_store)
    \o CapabilitiesLines(agent_card_data.capabilities)
    \o CardSkillsLines(agent_card_data.skills)
    \o CardLines(agent_card_data)
    \o ExtendedCardLines(extended_card_data)
    \o RequestHandlerLines(server_data)
    \o ApplicationLines
    \o RelationshipsLines(relationships_data)

\* ---------------------------------------------------- handle_generate_code

\* A handler that blanks the output view when it reports a failure.
RejectRequestClearingOutput(message) ==
    /\ outcome' = Warning(message)
    /\ generated_code' = <<>>
    /\ UNCHANGED <<config, current_tab, nextWid>>

\* A failed check: the warning box is shown and the handler returns.
RejectRequest(message) ==
    /\ outcome' = Warning(message)
    /\ UNCHANGED <<config, generated_code, current_tab, nextWid>>

\* A handler that adds the joined text below the displayed one.
ShowGeneratedCodeAppended(code) ==
    /\ generated_code' = (IF generated_code = <<>> THEN Join(code)
                          ELSE generated_code \o <<NL>> \o Join(code))
    /\ current_tab' = "Generated Code"
    /\ outcome' = Generated
    /\ UNCHANGED <<config, nextWid>>

\* The end of the handler: the joined text replaces the displayed one and
\* the generated-code tab becomes current.
ShowGeneratedCode(code) ==
    /\ generated_code' = Join(code)
    /\ current_tab' = "Generated Code"
    /\ outcome' = Generated
    /\ UNCHANGED <<config, nextWid>>

HandleGenerateCode ==
    LET agent_card_data == AgentCardData(agent_card, skills.card)
        extended_card_data == ExtendedCardData(extended_card, skills.extended)
        server_data == ServerData(server)
        message == Validate(agent_card_data, extended_card_data, server_data,
                            server.task_store_combo)
    IN  IF message # NoWarning
        THEN RejectRequest(message)
        ELSE ShowGeneratedCode(
                CodeLines(agent_card_data, extended_card_data, server_data,
                          RelationshipsData(relationships)))

\* ------------------------------------------------------------ user edits

\* Typing into a field of the agent card tab.
SetCardField(f, v) ==
    /\ agent_card' = [agent_card EXCEPT ![f] = v]
    /\ outcome' = Idle
    /\ UNCHANGED <<extended_card, skills, server, relationships,
                   generated_code, current_tab, nextWid>>

\* Typing into a field of the extended agent card tab.
SetExtendedField(f, v) ==
    /\ extended_card' = [extended_card EXCEPT ![f] = v]
    /\ outcome' = Idle
    /\ UNCHANGED <<agent_card, skills, server, relationships,
                   generated_code, current_tab, nextWid>>

\* Typing into a field of the server configuration tab, or picking an
\* item of the task store combo box.
SetServerField(f, v) ==
    /\ server' = [server EXCEPT ![f] = v]
    /\ outcome' = Idle
    /\ UNCHANGED <<agent_card, extended_card, skills, relationships,
                   generated_code, current_tab, nextWid>>

\* Typing into a field of the i-th entry of a skills layout.
SetSkillField(list, i, f, v) ==
    /\ i \in 1..Len(skills[list])
    /\ skills' = [skills EXCEPT ![list][i][f] = v]
    /\ outcome' = Idle
    /\ UNCHANGED <<agent_card, extended_card, server, relationships,
                   generated_code, current_tab, nextWid>>

\* Typing into a field of the i-th relationship entry.
SetRelationshipField(i, f, v) ==
    /\ i \in 1..Len(relationships)
    /\ relationships' = [relationships EXCEPT ![i][f] = v]
    /\ outcome' = Idle
    /\ UNCHANGED <<agent_card, extended_card, skills, server,
                   generated_code, current_tab, nextWid>>

\* Clicking a tab.
SelectTab(t) ==
    /\ current_tab' = t
    /\ outcome' = Idle
    /\ UNCHANGED <<config, generated_code, nextWid>>

\* ------------------------------------------------------------ entry lists

\* A layout that takes a new widget as its first item.
AddWidgetFirst(layout, w) == <<w>> \o layout

\* QVBoxLayout.addWidget: the widget becomes the layout's last item.
AddWidget(layout, w) == Append(layout, w)

\* remove_self of the i-th entry: it leaves the layout, the others stay.
RemoveWidget(layout, i) ==
    [j \in 1..(Len(layout) - 1) |-> IF j < i THEN layout[j] ELSE layout[j + 1]]

\* add_skill_ui, add_extended_skill_ui
AddSkill(list) ==
    /\ skills' = [skills EXCEPT ![list] = AddWidget(@, NewSkill(nextWid))]
    /\ nextWid' = nextWid + 1
    /\ outcome' = Idle
    /\ UNCHANGED <<agent_card, extended_card, server, relationships,
                   generated_code, current_tab>>

\* SkillEntryWidget.remove_self
RemoveSkill(list, i) ==
    /\ i \in 1..Len(skills[list])
    /\ skills' = [skills EXCEPT ![list] = RemoveWidget(@, i)]
    /\ outcome' = Idle
    /\ UNCHANGED <<agent_card, extended_card, server, relationships,
                   generated_code, current_tab, nextWid>>

\* add_relationship_ui
AddRelationship ==
    /\ relationships' = AddWidget(relationships, NewRelationship(nextWid))
    /\ nextWid' = nextWid + 1
    /\ outcome' = Idle
    /\ UNCHANGED <<agent_card, extended_card, skills, server,
                   generated_code, current_tab>>

\* RelationshipEntryWidget.remove_self
RemoveRelationship(i) ==
    /\ i \in 1..Len(relationships)
    /\ relationships' = RemoveWidget(relationships, i)
    /\ outcome' = Idle
    /\ UNCHANGED <<agent_card, extended_card, skills, server,
                   generated_code, current_tab, nextWid>>

\* ------------------------------------------------ the interactive session

\* The texts typed during a session: each field is left empty or filled.
CardNames == {<<>>, <<"E", "c", "h", "o">>}
CardUrls == {<<>>, <<"h", "t", "t", "p", ":", "/", "/", "h", "/">>}
ExecutorNames == {<<>>, <<"E", "x", "e", "c">>}
CustomPaths == {<<>>, <<"m", ".", "S">>}
SkillIds == {<<>>, <<"e", "c", "h", "o">>}
SkillNames == {<<>>, <<"E", "c", "h", "o", " ", "S", "k", "i", "l", "l">>}

EditCard ==
    \/ \E v \in CardNames : SetCardField("name", v)
    \/ \E v \in CardUrls : SetCardField("url", v)

EditServer ==
    \/ \E v \in ExecutorNames : SetServerField("agent_executor", v)
    \/ \E v \in TaskStoreOptions : SetServerField("task_store_combo", v)
    \/ \E v \in CustomPaths : SetServerField("custom_task_store", v)

EditSkill ==
    \E list \in SkillLists : \E i \in 1..Len(skills[list]) :
        \/ \E v \in SkillIds : SetSkillField(list, i, "id", v)
        \/ \E v \in SkillNames : SetSkillField(list, i, "name", v)

AddEntry ==
    /\ nextWid < MaxSessionAdds
    /\ \/ \E list \in SkillLists : AddSkill(list)
       \/ AddRelationship

RemoveEntry ==
    \/ \E list \in SkillLists : \E i \in 1..Len(skills[list]) : RemoveSkill(list, i)
    \/ \E i \in 1..Len(relationships) : RemoveRelationship(i)

ChangeTab == \E t \in Tabs : SelectTab(t)

Next ==
    \/ EditCard
    \/ EditServer
    \/ EditSkill
    \/ AddEntry
    \/ RemoveEntry
    \/ ChangeTab
    \/ HandleGenerateCode

Spec == Init /\ [][Next]_vars

\* ------------------------------------------- generate requests on inputs

\* A field holding only a blank.
BlankText == <<" ">>

\* Entry widgets with wid w whose id and name were typed in.
SkillEntries(w) ==
    {[NewSkill(w) EXCEPT !.id = i, !.name = n] : i \in SkillIds, n \in SkillNames}

\* The skills layouts of k entries, created in order from widget w on.
RECURSIVE LayoutsOfLen(_, _)
LayoutsOfLen(k, w) ==
    IF k = 0 THEN {<<>>}
    ELSE {<<e>> \o rest : e \in SkillEntries(w), rest \in LayoutsOfLen(k - 1, w + 1)}

SkillLayouts(w) == UNION {LayoutsOfLen(k, w) : k \in 0..MaxSkills}

\* The state a session is in when the user asks for the code: nothing was
\* generated before, the fields and the lists hold what was typed.
FilledIn(card, extended, cardSkills, extendedSkills, srv, rels) ==
    /\ agent_card = card
    /\ extended_card = extended
    /\ skills = [card |-> cardSkills, extended |-> extendedSkills]
    /\ server = srv
    /\ relationships = rels
    /\ generated_code = <<>>
    /\ current_tab = "Agent Card"
    /\ outcome = Idle
    /\ nextWid = Len(cardSkills) + Len(extendedSkills) + Len(rels)

\* Validation: every required field empty, blank or filled, in any combination.
InitValidate ==
    \E n \in CardNames \cup {BlankText}, u \in CardUrls, x \in ExecutorNames,
       o \in TaskStoreOptions, p \in CustomPaths \cup {BlankText} :
    \E cs \in SkillLayouts(0) :
    \E es \in SkillLayouts(Len(cs)) :
        FilledIn([BlankCard EXCEPT !.name = n, !.url = u],
                 BlankExtended, cs, es,
                 [agent_executor |-> x, task_store_combo |-> o,
                  custom_task_store |-> p],
                 <<>>)

NextValidate == HandleGenerateCode

SpecValidate == InitValidate /\ [][NextValidate]_vars

\* ------------------------------------------------ a session on the lists

\* The texts typed into the entries: ids and names that tell entries apart.
ListSkillIds == {<<"a">>, <<"b">>}
ListSkillNames == {<<"n">>}
ListRelationshipNames == {<<"r">>}

\* The required scalar fields are filled in; the lists are still empty.
InitLists ==
    FilledIn([BlankCard EXCEPT !.name = <<"E", "c", "h", "o">>,
                               !.url = <<"h", "t", "t", "p", ":", "/", "/", "h", "/">>],
             BlankExtended, <<>>, <<>>,
             [BlankServer EXCEPT !.agent_executor = <<"E", "x", "e", "c">>],
             <<>>)

AddListEntry ==
    /\ nextWid < MaxAdds
    /\ \/ \E list \in SkillLists : AddSkill(list)
       \/ AddRelationship

EditListEntry ==
    \/ \E list \in SkillLists : \E i \in 1..Len(skills[list]) :
          \/ \E v \in ListSkillIds : SetSkillField(list, i, "id", v)
          \/ \E v \in ListSkillNames : SetSkillField(list, i, "name", v)
    \/ \E i \in 1..Len(relationships) :
          \E v \in ListRelationshipNames : SetRelationshipField(i, "name", v)

NextLists ==
    \/ AddListEntry
    \/ RemoveEntry
    \/ EditListEntry
    \/ HandleGenerateCode

SpecLists == InitLists /\ [][NextLists]_vars

\* ------------------------------------- generate requests on task stores

\* The characters of a custom task store path: two letters, the dot, a blank.
PathChars == {"m", "S", ".", " "}

\* Every text of at most MaxPathLen of these characters, and the two texts
\* that spell an item of the combo box.
StorePaths ==
    UNION {[1..k -> PathChars] : k \in 0..MaxPathLen}
    \cup {CustomText, InMemoryTaskStoreText}

InitStore ==
    \E n \in CardNames, x \in ExecutorNames, o \in TaskStoreOptions,
       p \in StorePaths :
        FilledIn([BlankCard EXCEPT !.name = n,
                    !.url = <<"h", "t", "t", "p", ":", "/", "/", "h", "/">>],
                 BlankExtended, <<>>, <<>>,
                 [agent_executor |-> x, task_store_combo |-> o,
                  custom_task_store |-> p],
                 <<>>)

NextStore == HandleGenerateCode

SpecStore == InitStore /\ [][NextStore]_vars

\* ------------------------------- generate requests on extended cards

\* The texts of the extended card's fields: empty, blank, filled; the
\* description, a QTextEdit, may hold a line break.
ExtendedNames == {<<>>, BlankText, <<"P", "r", "o">>}
ExtendedDescriptions == {<<>>, <<"d">>, <<"d", NL, "e">>}
ExtendedVersions == {<<>>, <<"2", ".", "0">>}

InitExtended ==
    \E n \in ExtendedNames, d \in ExtendedDescriptions, v \in ExtendedVersions :
    \E cs \in SkillLayouts(0) :
    \E es \in SkillLayouts(Len(cs)) :
        FilledIn([BlankCard EXCEPT !.name = <<"E", "c", "h", "o">>,
                    !.url = <<"h", "t", "t", "p", ":", "/", "/", "h", "/">>],
                 [name |-> n, description |-> d, version |-> v],
                 cs, es,
                 [BlankServer EXCEPT !.agent_executor = <<"E", "x", "e", "c">>],
                 <<>>)

NextExtended == HandleGenerateCode

SpecExtended == InitExtended /\ [][NextExtended]_vars

\* ---------------------------------- generate requests on list texts

\* What a list field can hold: items, separators, blanks, a quote.
ListChars == {"x", ",", " ", NL, "'"}

ListTexts ==
    UNION {[1..k -> ListChars] : k \in 0..MaxListLen}
    \cup {<<"a", ",", " ", "b", NL, "c">>, <<"x", ",", ",", "y">>}

\* One card skill whose examples hold the list text.
InitParse ==
    \E t \in ListTexts, n \in CardNames :
        FilledIn([BlankCard EXCEPT !.name = n,
                    !.url = <<"h", "t", "t", "p", ":", "/", "/", "h", "/">>],
                 BlankExtended,
                 <<[NewSkill(0) EXCEPT !.id = <<"e", "c", "h", "o">>,
                        !.name = <<"E", "c", "h", "o">>,
                        !.examples = t]>>,
                 <<>>,
                 [BlankServer EXCEPT !.agent_executor = <<"E", "x", "e", "c">>],
                 <<>>)

NextParse == HandleGenerateCode

SpecParse == InitParse /\ [][NextParse]_vars

\* -------------------------------- generate requests on relationships

\* What the two fields of a relationship entry can hold: nothing, a name
\* with blanks around it, a quote.
RelationshipNames == {<<>>, <<"B">>, <<" ", "C", " ">>, <<"'">>}
RelationshipUrls == {<<>>, <<"u">>}

RelationshipEntries(w) ==
    {[wid |-> w, name |-> n, url |-> u] :
        n \in RelationshipNames, u \in RelationshipUrls}

RECURSIVE RelationshipLayoutsOfLen(_, _)
RelationshipLayoutsOfLen(k, w) ==
    IF k = 0 THEN {<<>>}
    ELSE {<<e>> \o rest : e \in RelationshipEntries(w),
                          rest \in RelationshipLayoutsOfLen(k - 1, w + 1)}

RelationshipLayouts ==
    UNION {RelationshipLayoutsOfLen(k, 0) : k \in 0..MaxRelationships}

InitRelations ==
    \E n \in CardNames, rels \in RelationshipLayouts :
        FilledIn([BlankCard EXCEPT !.name = n,
                    !.url = <<"h", "t", "t", "p", ":", "/", "/", "h", "/">>],
                 BlankExtended, <<>>, <<>>,
                 [BlankServer EXCEPT !.agent_executor = <<"E", "x", "e", "c">>],
                 rels)

NextRelations == HandleGenerateCode

SpecRelations == InitRelations /\ [][NextRelations]_vars

\* ---------------------------- generate requests on free-text fields

\* What a description (a QTextEdit) can hold: letters, blanks, line breaks
\* and double quotes.
TextChars == {"d", NL, " ", "\""}
Texts == UNION {[1..k -> TextChars] : k \in 0..MaxTextLen}

\* What the one-line fields (QLineEdit) hold in these requests.
LineTexts == {<<"E">>, <<"a", " ", "b">>, <<"\"">>}

\* Every free-text field of the cards and of one card skill is filled in:
\* the descriptions with one text, the one-line fields with another.
InitQuote ==
    \E t \in Texts, u \in LineTexts :
        FilledIn([BlankCard EXCEPT !.name = u, !.url = u, !.version = u,
                    !.description = t],
                 [name |-> u, description |-> t, version |-> u],
                 <<[NewSkill(0) EXCEPT !.id = u, !.name = u, !.description = t]>>,
                 <<>>,
                 [BlankServer EXCEPT !.agent_executor = <<"E", "x", "e", "c">>],
                 <<>>)

NextQuote == HandleGenerateCode

SpecQuote == InitQuote /\ [][NextQuote]_vars

\* ------------------------- generate requests on executor class names

\* What the executor field can hold: nothing, blanks, names with blanks
\* around them, the name the generator falls back on.
ExecutorTexts ==
    UNION {[1..k -> {"M", " "}] : k \in 0..MaxNameLen}
    \cup {<<"E", "x", "e", "c">>,
          <<"M", "y", "A", "g", "e", "n", "t", "E", "x", "e", "c", "u", "t", "o", "r">>}

InitExecutor ==
    \E x \in ExecutorTexts, n \in CardNames, u \in CardUrls,
       o \in TaskStoreOptions, p \in CustomPaths :
        FilledIn([BlankCard EXCEPT !.name = n, !.url = u],
                 BlankExtended, <<>>, <<>>,
                 [agent_executor |-> x, task_store_combo |-> o,
                  custom_task_store |-> p],
                 <<>>)

NextExecutor == HandleGenerateCode

SpecExecutor == InitExecutor /\ [][NextExecutor]_vars

\* ------------------------- generate requests on every kind of input

\* The inputs of the specifications above, taken together.
InitSections ==
    \/ InitValidate
    \/ InitStore
    \/ InitExtended
    \/ InitParse
    \/ InitRelations

NextSections == HandleGenerateCode

SpecSections == InitSections /\ [][NextSections]_vars

\* ------------------------------------------------------------ properties

\* The contents read from the widgets, as the handler reads them.
CardSkillsNow == SkillsData(skills.card)
ExtendedSkillsNow == SkillsData(skills.extended)
CustomPathNow == Strip(server.custom_task_store)
CustomSelected == server.task_store_combo = "Custom"

\* pattern occurs in text as a run of consecutive pieces.
ContainsSeq(text, pattern) ==
    \E i \in 1..(Len(text) - Len(pattern) + 1) :
        SubSeq(text, i, i + Len(pattern) - 1) = pattern

\* The number of pieces of text equal to piece.
CountPiece(text, piece) == Cardinality({i \in 1..Len(text) : text[i] = piece})

\* A required field is missing somewhere in the configuration.
SomeRuleFails ==
    \/ Strip(agent_card.name) = <<>>
    \/ Strip(agent_card.url) = <<>>
    \/ \E list \in SkillLists : \E i \in 1..Len(skills[list]) :
          Strip(skills[list][i].id) = <<>> \/ Strip(skills[list][i].name) = <<>>
    \/ Strip(server.agent_executor) = <<>>
    \/ (CustomSelected /\ CustomPathNow = <<>>)

\* The displayed text is a whole emission: it starts with the first import
\* line and ends with the last line of the relationships block.
WholeEmission(text) ==
    /\ text # <<>>
    /\ text[1] = ImportLines[1][1]
    /\ text[Len(text)] \in {"# }", "# No agent relationships defined."}

\* C1: a generate request on a configuration that breaks a validation rule
\* shows a warning and changes neither the displayed text, nor the current
\* tab, nor any field or list entry; a request that does emit replaces the
\* displayed text by a whole emission.
C1_FailedRequestChangesNothing ==
    [][ /\ (outcome'.kind # "idle" /\ SomeRuleFails) => outcome'.kind = "warning"
        /\ outcome'.kind = "warning" =>
              /\ generated_code' = generated_code
              /\ current_tab' = current_tab
              /\ config' = config
        /\ outcome'.kind = "generated" =>
              /\ ~SomeRuleFails
              /\ WholeEmission(generated_code') ]_vars

\* A request failed while an earlier emission was displayed and the user
\* had gone back to a configuration tab.
C1_Witness ==
    /\ outcome.kind = "warning"
    /\ generated_code # <<>>
    /\ current_tab = "Server Configuration"

\* C2: whenever the agent card's name or url is empty, the failure reported
\* is the agent card's (the name's before the url's), whatever else is
\* invalid in the skills, the extended skills or the server configuration.
C2_AgentCardReportedFirst ==
    outcome.kind # "idle" =>
        /\ Strip(agent_card.name) = <<>> =>
              outcome = Warning(<<"Agent Card: Name is required.">>)
        /\ (Strip(agent_card.name) # <<>> /\ Strip(agent_card.url) = <<>>) =>
              outcome = Warning(<<"Agent Card: URL is required.">>)

\* The url is missing, and so are a skill's id, an extended skill's name, the
\* executor and the custom path; the request reported the url.
C2_Witness ==
    /\ outcome = Warning(<<"Agent Card: URL is required.">>)
    /\ \E i \in 1..Len(CardSkillsNow) : CardSkillsNow[i].id = <<>>
    /\ \E i \in 1..Len(ExtendedSkillsNow) : ExtendedSkillsNow[i].name = <<>>
    /\ Strip(server.agent_executor) = <<>>
    /\ CustomSelected /\ CustomPathNow = <<>>

\* The rules broken by the skills of one list, ranked from `base` on in list
\* order, the id of a skill before its name.
SkillRuleFailures(skills_data, label, base) ==
    {[rank |-> base + 2 * i,
      msg |-> <<label, " - Skill #", ToString(i), ": ID is required.">>] :
        i \in {j \in 1..Len(skills_data) : skills_data[j].id = <<>>}}
    \cup
    {[rank |-> base + 2 * i + 1,
      msg |-> <<label, " - Skill #", ToString(i), ": Name is required.">>] :
        i \in {j \in 1..Len(skills_data) : skills_data[j].name = <<>>}}

\* Every rule the configuration breaks, with its rank in the canonical order.
RuleFailures ==
    LET n == Len(CardSkillsNow)
        m == Len(ExtendedSkillsNow)
    IN  {[rank |-> 0, msg |-> <<"Agent Card: Name is required.">>] :
            x \in IF Strip(agent_card.name) = <<>> THEN {0} ELSE {}}
        \cup {[rank |-> 1, msg |-> <<"Agent Card: URL is required.">>] :
            x \in IF Strip(agent_card.url) = <<>> THEN {0} ELSE {}}
        \cup SkillRuleFailures(CardSkillsNow, "Agent Card", 0)
        \cup SkillRuleFailures(ExtendedSkillsNow, "Extended Agent Card", 2 * n)
        \cup {[rank |-> 2 * (n + m) + 2,
               msg |-> <<"Server Configuration: Agent Executor Class Name is required.">>] :
            x \in IF Strip(server.agent_executor) = <<>> THEN {0} ELSE {}}
        \cup {[rank |-> 2 * (n + m) + 3,
               msg |-> <<"Server Configuration: Custom Task Store Class is required when 'Custom' is selected.">>] :
            x \in IF CustomSelected /\ CustomPathNow = <<>> THEN {0} ELSE {}}

FirstFailure ==
    CHOOSE f \in RuleFailures : \A g \in RuleFailures : f.rank <= g.rank

\* C3: a generate request shows exactly one warning when at least one rule
\* is broken, and it is the broken rule that comes first in the canonical
\* order; it shows none when no rule is broken.
C3_FirstFailureOnly ==
    outcome.kind # "idle" =>
        IF RuleFailures = {}
        THEN outcome = Generated
        ELSE /\ outcome.kind = "warning"
             /\ Len(outcome.boxes) = 1
             /\ outcome.boxes[1] = FirstFailure.msg

\* Four rules are broken at once, in the extended skills and in the server
\* configuration, and the second extended skill's was the one shown.
C3_Witness ==
    /\ Cardinality(RuleFailures) >= 4
    /\ outcome = Warning(<<"Extended Agent Card", " - Skill #", "2",
                           ": ID is required.">>)

InvalidSkill(skill) == skill.id = <<>> \/ skill.name = <<>>

HasInvalidSkill(skills_data) ==
    \E i \in 1..Len(skills_data) : InvalidSkill(skills_data[i])

\* The position (first skill: 1) of the first invalid skill of a list.
FirstInvalid(skills_data) ==
    CHOOSE i \in 1..Len(skills_data) :
        /\ InvalidSkill(skills_data[i])
        /\ \A j \in 1..(i - 1) : ~InvalidSkill(skills_data[j])

\* The warning for the first invalid skill of a list: the list's label, the
\* skill's position, and the id when it is empty, else the name.
FirstInvalidWarning(skills_data, label) ==
    LET i == FirstInvalid(skills_data)
    IN  Warning(<<label, " - Skill #", ToString(i),
                  IF skills_data[i].id = <<>> THEN ": ID is required."
                                              ELSE ": Name is required.">>)

\* The warning shown names a skill of the list with this label.
TaggedWith(label) ==
    /\ outcome.kind = "warning"
    /\ outcome.boxes[1][1] = label

\* C4: a warning that names a skill of a list names the first invalid skill
\* of that list, by its position, so that no valid skill before it is ever
\* reported; and when validation gets to a list that holds an invalid skill
\* (nothing checked before that list is missing), that warning is shown.
C4_FirstInvalidSkillOfList ==
    outcome.kind # "idle" =>
        /\ TaggedWith("Agent Card") =>
              /\ HasInvalidSkill(CardSkillsNow)
              /\ outcome = FirstInvalidWarning(CardSkillsNow, "Agent Card")
        /\ TaggedWith("Extended Agent Card") =>
              /\ HasInvalidSkill(ExtendedSkillsNow)
              /\ outcome = FirstInvalidWarning(ExtendedSkillsNow, "Extended Agent Card")
        /\ ( /\ Strip(agent_card.name) # <<>>
             /\ Strip(agent_card.url) # <<>>
             /\ HasInvalidSkill(CardSkillsNow) ) =>
              outcome = FirstInvalidWarning(CardSkillsNow, "Agent Card")
        /\ ( /\ Strip(agent_card.name) # <<>>
             /\ Strip(agent_card.url) # <<>>
             /\ ~HasInvalidSkill(CardSkillsNow)
             /\ HasInvalidSkill(ExtendedSkillsNow) ) =>
              outcome = FirstInvalidWarning(ExtendedSkillsNow, "Extended Agent Card")

\* The first skill of the agent card is valid, the second has no name, and
\* the second is the one reported.
C4_Witness ==
    /\ Len(CardSkillsNow) = 2
    /\ ~InvalidSkill(CardSkillsNow[1])
    /\ outcome = Warning(<<"Agent Card", " - Skill #", "2", ": Name is required.">>)

\* The three entry lists.
EntryLists == [card |-> skills.card, extended |-> skills.extended,
               relationships |-> relationships]

EntryListNames == {"card", "extended", "relationships"}

\* Widgets are numbered as they are created: a layout holds its entries in
\* the order in which they were added when the numbers go up.
InAdditionOrder(layout) ==
    \A i, j \in 1..Len(layout) : i < j => layout[i].wid < layout[j].wid

\* `after` is `before` without its i-th entry.
WithoutEntry(before, after, i) ==
    /\ Len(after) = Len(before) - 1
    /\ \A j \in 1..Len(after) :
          after[j] = IF j < i THEN before[j] ELSE before[j + 1]

\* One step on a layout: an add puts one blank entry after all the others,
\* a remove takes one entry out and leaves the others as they were, an edit
\* changes no entry's place.
LayoutStep(before, after) ==
    /\ Len(after) > Len(before) =>
          /\ Len(after) = Len(before) + 1
          /\ SubSeq(after, 1, Len(before)) = before
    /\ Len(after) < Len(before) =>
          \E i \in 1..Len(before) : WithoutEntry(before, after, i)
    /\ Len(after) = Len(before) =>
          \A i \in 1..Len(before) : after[i].wid = before[i].wid

\* The lines of `lines` that start with the piece `first`.
LinesStarting(lines, first) ==
    SelectSeq(lines, LAMBDA l : l # <<>> /\ l[1] = first)

\* The lines of the displayed text before, and from, the extended card's header.
ExtendedHeader ==
    <<"# --- Extended Agent Card Definition (if any overrides/additions) ---">>

ExtendedHeaderAt(lines) == CHOOSE k \in 1..Len(lines) : lines[k] = ExtendedHeader

IdLine(id) == <<"        id=", "\"">> \o id \o <<"\"", ",">>

\* The displayed text lists the entries of the three lists in list order:
\* the ids of the card's skills before the extended card's header, those of
\* the extended skills after it, and one line per relationship.
EmittedInListOrder ==
    LET lines == PhysicalLines(generated_code)
        k == ExtendedHeaderAt(lines)
    IN  /\ LinesStarting(SubSeq(lines, 1, k), "        id=")
              = [i \in 1..Len(skills.card) |-> IdLine(Strip(skills.card[i].id))]
        /\ LinesStarting(SubSeq(lines, k, Len(lines)), "        id=")
              = [i \in 1..Len(skills.extended) |->
                    IdLine(Strip(skills.extended[i].id))]
        /\ LinesStarting(lines, "#    '")
              = [i \in 1..Len(relationships) |->
                    <<"#    '">> \o Strip(relationships[i].name) \o <<"': '">>
                        \o Strip(relationships[i].url) \o <<"',">>]

\* C5: whatever entries were added and removed, each of the three lists
\* holds its remaining entries in the order in which they were added, every
\* step on a list appends one entry or removes one entry and keeps the
\* others in place, and a generated text lists the entries in list order.
C5_ListOrderPreserved ==
    /\ [](\A l \in EntryListNames : InAdditionOrder(EntryLists[l]))
    /\ [](outcome = Generated => EmittedInListOrder)
    /\ [][\A l \in EntryListNames : LayoutStep(EntryLists[l], EntryLists[l]')]_vars

\* Three skills were added to the card, the middle one was removed, and the
\* two that remain, told apart by their ids, were emitted.
C5_Witness ==
    /\ outcome = Generated
    /\ Len(skills.card) = 2
    /\ skills.card[1].wid = 0 /\ skills.card[2].wid = 2
    /\ skills.card[1].id # skills.card[2].id

\* The import section of a displayed text: its lines before the first empty one.
ImportSection(text) ==
    LET lines == PhysicalLines(text)
        k == CHOOSE i \in 1..Len(lines) :
                lines[i] = <<>> /\ \A j \in 1..(i - 1) : lines[j] # <<>>
    IN  SubSeq(lines, 1, k - 1)

\* The task_store argument of the emitted request handler.
TaskStoreArgument(text) ==
    LET found == LinesStarting(PhysicalLines(text), "    task_store=")
    IN  IF Len(found) = 1 /\ found[1][Len(found[1])] = ","
        THEN SubSeq(found[1], 2, Len(found[1]) - 1)
        ELSE <<"?">>

\* The place of the last dot of a path that has a non-empty module part
\* before it and a non-empty final segment after it.
IsLastDot(path, k) ==
    /\ k \in 2..(Len(path) - 1)
    /\ path[k] = "."
    /\ \A j \in (k + 1)..Len(path) : path[j] # "."

\* C6: with the custom option and a dotted path whose module part and final
\* segment are not empty, the import section is the three fixed imports and
\* the one line 'from <before the last dot> import <final segment>', and the
\* task store is instantiated as '<final segment>()'; with the default
\* option the import section is the three fixed imports alone.
C6_CustomImportLine ==
    outcome = Generated =>
        /\ CustomSelected =>
              \A k \in 1..Len(CustomPathNow) :
                  IsLastDot(CustomPathNow, k) =>
                      LET module == SubSeq(CustomPathNow, 1, k - 1)
                          class == SubSeq(CustomPathNow, k + 1, Len(CustomPathNow))
                      IN  /\ ImportSection(generated_code) = ImportLines \o
                                << <<"from ">> \o module \o <<" import ">> \o class >>
                          /\ TaskStoreArgument(generated_code) = class \o <<"()">>
        /\ ~CustomSelected => ImportSection(generated_code) = ImportLines

\* A path with two dots was emitted: the module part holds the first dot.
C6_Witness ==
    /\ outcome = Generated
    /\ CustomSelected
    /\ CustomPathNow = <<"m", ".", "m", ".", "S">>

\* The text of the last segment of a dotted path, followed by "()"; the
\* characters of InMemoryTaskStore() are the default's expression.
InstanceOf(class) ==
    IF class = InMemoryTaskStoreText THEN <<"InMemoryTaskStore()">>
    ELSE class \o <<"()">>

LastSegment(path) ==
    IF Contains(path, ".")
    THEN SubSeq(path, LastIndexOf(path, ".") + 1, Len(path))
    ELSE path

\* C7: every emitted request handler has as its task_store argument
\* 'InMemoryTaskStore()' with the default option and '<last segment of the
\* path>()' with the custom option, whatever the path.
C7_TaskStoreExpression ==
    outcome = Generated =>
        TaskStoreArgument(generated_code) =
            IF CustomSelected THEN InstanceOf(LastSegment(CustomPathNow))
            ELSE <<"InMemoryTaskStore()">>

\* A path with no dot, or with an empty segment.
Malformed(path) ==
    \/ ~Contains(path, ".")
    \/ \E i \in 1..Len(Split(path, {"."})) : Split(path, {"."})[i] = <<>>

\* C8: a non-empty malformed custom path passes validation, adds no import
\* line to the three fixed ones and is instantiated verbatim, as '<path>()'
\* (the path that spells the combo box's Custom item, which C7 is about, is
\* left aside).
C8_MalformedPathVerbatim ==
    ( /\ outcome.kind # "idle"
      /\ CustomSelected
      /\ CustomPathNow # <<>>
      /\ CustomPathNow # CustomText
      /\ Malformed(CustomPathNow)
      /\ Strip(agent_card.name) # <<>>
      /\ Strip(server.agent_executor) # <<>> ) =>
        /\ outcome = Generated
        /\ ImportSection(generated_code) = ImportLines
        /\ TaskStoreArgument(generated_code) = InstanceOf(CustomPathNow)

\* The extended card's attributes as the handler reads them.
ExtendedNow == ExtendedCardData(extended_card, skills.extended)

\* The overrides the extended card asks for: its non-empty attributes, and
\* its skills when it has any.
OverrideKeys ==
    {k \in {"name", "description", "version"} : ExtendedNow[k] # <<>>}
    \cup (IF skills.extended # <<>> THEN {"skills"} ELSE {})

CopyCall ==
    "extended_public_agent_card = ExtendedAgentCard.from_agent_card(public_agent_card, "

\* The entry of an override, as it is written in the copy call.
OverrideEntry(k) ==
    IF k = "skills" THEN <<"skills=extended_agent_skills">>
    ELSE <<CASE k = "name" -> "name="
             [] k = "description" -> "description="
             [] k = "version" -> "version=">>
         \o format_single_string_for_code(ExtendedNow[k])

\* The overrides in the order name, description, version, skills.
OverrideEntries ==
    LET order == <<"name", "description", "version", "skills">>
        kept == SelectSeq(order, LAMBDA k : k \in OverrideKeys)
    IN  [i \in 1..Len(kept) |-> OverrideEntry(kept[i])]

Sentinel == "# No extended agent card attributes or skills defined to override/add."

AbsentCard == "extended_public_agent_card = None"

\* C9: the copy call of an emitted extended-card block carries exactly the
\* non-empty ones of name, description and version, and a skills entry exactly
\* when there are extended skills; with nothing to override the block is the
\* sentinel comment and the binding of the extended card to None.
C9_ExtendedOverrides ==
    outcome = Generated =>
        IF OverrideKeys # {}
        THEN /\ ContainsSeq(generated_code,
                    <<NL, CopyCall>> \o JoinComma(OverrideEntries) \o <<")", NL>>)
             /\ CountPiece(generated_code, CopyCall) = 1
             /\ CountPiece(generated_code, Sentinel) = 0
             /\ CountPiece(generated_code, AbsentCard) = 0
        ELSE /\ ContainsSeq(generated_code,
                    ExtendedHeader \o <<NL, Sentinel, NL, AbsentCard, NL>>)
             /\ CountPiece(generated_code, CopyCall) = 0

\* Only the version is overridden, and the text was emitted.
C9_Witness ==
    /\ outcome = Generated
    /\ OverrideKeys = {"version"}
    /\ ExtendedNow.version = <<"2", ".", "0">>

\* C10: when there are extended skills, the list handed to the copy call as
\* the extended card's skills holds the base card's skills followed by the
\* extended ones.
C10_ExtendedSkillsAdditive ==
    (outcome = Generated /\ skills.extended # <<>>) =>
        LET lines == PhysicalLines(generated_code)
            k == ExtendedHeaderAt(lines)
        IN  /\ CountPiece(generated_code, "skills=extended_agent_skills") = 1
            /\ LinesStarting(SubSeq(lines, k + 1, Len(lines)), "        id=")
                  = [i \in 1..Len(CardSkillsNow) |-> IdLine(CardSkillsNow[i].id)]
                    \o [i \in 1..Len(ExtendedSkillsNow) |->
                            IdLine(ExtendedSkillsNow[i].id)]

\* The text of the examples field of the one card skill.
ExamplesNow == skills.card[1].examples

\* The places where a list text is cut, with both of its ends.
Cuts(text) ==
    {0, Len(text) + 1} \cup {i \in 1..Len(text) : text[i] \in {",", NL}}

\* The cuts that open a token: the next cut is q, and something other than
\* blanks lies in between.
Inked(text, p, q) == {i \in (p + 1)..(q - 1) : text[i] \notin {" ", NL, "\t"}}

NextCut(text, p) ==
    CHOOSE q \in Cuts(text) : q > p /\ \A r \in Cuts(text) : r > p => q <= r

TokenStarts(text) ==
    {p \in Cuts(text) \ {Len(text) + 1} : Inked(text, p, NextCut(text, p)) # {}}

\* The token opened at cut p, without the blanks around it.
TokenAt(text, p) ==
    LET ink == Inked(text, p, NextCut(text, p))
        lo == CHOOSE i \in ink : \A j \in ink : i <= j
        hi == CHOOSE i \in ink : \A j \in ink : j <= i
    IN  SubSeq(text, lo, hi)

\* The non-empty trimmed tokens of a list text, in their order in the text.
Tokens(text) ==
    LET starts == TokenStarts(text)
        kth(k) == CHOOSE p \in starts : Cardinality({r \in starts : r < p}) = k - 1
    IN  [k \in 1..Cardinality(starts) |-> TokenAt(text, kth(k))]

\* C11: the list helper cuts the text at commas and line breaks, trims the
\* tokens, drops the empty ones and keeps the others in order; a text with
\* no token left is rendered as [].
C11_ListParsing ==
    outcome = Generated =>
        /\ ParseItems(ExamplesNow) = Tokens(ExamplesNow)
        /\ LinesStarting(PhysicalLines(generated_code), "        examples=")
             = << <<"        examples=">>
                    \o (IF Tokens(ExamplesNow) = <<>> THEN <<"[]">>
                        ELSE <<"[">> \o JoinItems(Tokens(ExamplesNow)) \o <<"]">>)
                    \o <<",">> >>

\* The text x,,y was parsed into the items x and y and emitted.
C11_Witness ==
    /\ outcome = Generated
    /\ ExamplesNow = <<"x", ",", ",", "y">>
    /\ ContainsSeq(generated_code,
           <<"        examples=", "[", "'", "x", "'", ", ", "'", "y", "'", "]", ",", NL>>)

RelationshipsHeader ==
    <<"# --- Defined Agent Relationships (Informational) ---">>

\* The lines of a displayed text below the header of the relationships.
RelationshipsBlock(text) ==
    LET lines == PhysicalLines(text)
        k == CHOOSE i \in 1..Len(lines) : lines[i] = RelationshipsHeader
    IN  SubSeq(lines, k + 1, Len(lines))

\* The line of the mapping for the relationship entry w.
MappingLine(w) ==
    <<"#    '">> \o Strip(w.name) \o <<"': '">> \o Strip(w.url) \o <<"',">>

\* C13: the relationships block is the commented-out mapping with one line
\* per relationship in list order, or the one comment that none is defined;
\* a generate request fails only on a validation rule, none of which reads
\* a relationship.
C13_RelationshipsBlock ==
    /\ outcome.kind = "warning" => SomeRuleFails
    /\ outcome = Generated =>
          RelationshipsBlock(generated_code)
            = IF relationships # <<>>
              THEN << <<"# {">> >>
                   \o [i \in 1..Len(relationships) |-> MappingLine(relationships[i])]
                   \o << <<"# }">> >>
              ELSE << <<"# No agent relationships defined.">> >>

\* A relationship without name and url, followed by a named one, was emitted.
C13_Witness ==
    /\ outcome = Generated
    /\ Len(relationships) = 2
    /\ relationships[1].name = <<>> /\ relationships[1].url = <<>>
    /\ relationships[2].name = <<"B">>
    /\ ContainsSeq(generated_code,
           <<"# {", NL, "#    '", "': '", "',", NL, "#    '", "B", "': '">>)

\* The comment headers of the sections that follow the imports, in order.
SectionHeaders ==
    <<"# --- Agent Capabilities Definition ---",
      "# --- Main Agent Card Skills Definition ---",
      "# --- Main Agent Card Definition ---",
      "# --- Extended Agent Card Definition (if any overrides/additions) ---",
      "# --- Request Handler Definition ---",
      "# --- Server Application Definition ---",
      "# --- Defined Agent Relationships (Informational) ---">>

IsSectionHeader(piece) == \E k \in 1..Len(SectionHeaders) : SectionHeaders[k] = piece

\* The first piece of the first line of each section.
SectionOpeners ==
    <<{"agent_capabilities = AgentCapabilities("},
      {"agent_skills = [", "agent_skills = []"},
      {"public_agent_card = AgentCard("},
      {"extended_agent_skills = [", CopyCall, Sentinel},
      {"# TODO: Define your AgentExecutor class (e.g., "},
      {"app = A2AStarletteApplication("},
      {"# {", "# No agent relationships defined."}>>

\* Section k among the lines of a displayed text: the lines between its
\* header and the empty line before the next header, or the end of the text.
SectionLines(lines, k) ==
    LET at(j) == CHOOSE i \in 1..Len(lines) : lines[i] = <<SectionHeaders[j]>>
    IN  SubSeq(lines, at(k) + 1,
               IF k = Len(SectionHeaders) THEN Len(lines) ELSE at(k + 1) - 2)

\* C12: a valid configuration is always emitted, and an emission is the
\* imports followed by the seven sections, each once and in the fixed order,
\* each introduced by an empty line and its comment header; a card without
\* skills gets the assignment of the empty list and no constructor call.
C12_FixedSections ==
    /\ (outcome # Idle /\ ~SomeRuleFails) => outcome = Generated
    /\ outcome = Generated =>
        LET lines == PhysicalLines(generated_code)
            base == SectionLines(lines, 2)
        IN  /\ SelectSeq(generated_code, IsSectionHeader) = SectionHeaders
            /\ \A i \in 1..Len(generated_code) :
                  IsSectionHeader(generated_code[i]) =>
                      /\ i > 2 /\ i < Len(generated_code)
                      /\ generated_code[i - 1] = NL /\ generated_code[i - 2] = NL
                      /\ generated_code[i + 1] = NL
            /\ SubSeq(lines, 1, 3) = ImportLines
            /\ \A k \in 1..Len(SectionHeaders) :
                  LET section == SectionLines(lines, k)
                  IN  /\ section # <<>>
                      /\ section[1] # <<>>
                      /\ section[1][1] \in SectionOpeners[k]
            /\ IF CardSkillsNow = <<>>
               THEN base = << <<"agent_skills = []">> >>
               ELSE /\ CountPiece(generated_code, "agent_skills = []") = 0
                    /\ Len(LinesStarting(base, "    AgentSkill("))
                          = Len(CardSkillsNow)

\* A card without skills, with an extended skill and a custom task store,
\* was emitted.
C12_Witness ==
    /\ outcome = Generated
    /\ CardSkillsNow = <<>>
    /\ ExtendedSkillsNow # <<>>
    /\ CustomSelected
    /\ CountPiece(generated_code, "agent_skills = []") = 1

\* The string literal the quoting rule asks for.
Literal(value) ==
    IF \E i \in 1..Len(value) : value[i] = NL
    THEN <<"\"\"\"">> \o value \o <<"\"\"\"">>
    ELSE <<"\"">> \o value \o <<"\"">>

\* The displayed text has exactly one line "<key><literal of value>,".
RenderedOnce(text, key, value) ==
    /\ CountPiece(text, key) = 1
    /\ ContainsSeq(text, <<NL, key>> \o Literal(value) \o <<",", NL>>)

\* The copy call of the displayed text has the entry "<key><literal of
\* value>" when value is not empty, and no entry of that key otherwise.
OverriddenOnce(text, key, value) ==
    IF value = <<>> THEN CountPiece(text, key) = 0
    ELSE /\ CountPiece(text, key) = 1
         /\ \/ ContainsSeq(text, <<key>> \o Literal(value) \o <<", ">>)
            \/ ContainsSeq(text, <<key>> \o Literal(value) \o <<")", NL>>)

\* C14: every free-text field that is emitted as a string literal (the
\* card's name, description, url and version, a skill's id, name and
\* description, the extended card's name, description and version) is
\* triple-quoted exactly when its value holds a line break and is otherwise
\* put between double quotes, with the value unchanged in both cases.
C14_QuotingRule ==
    (outcome = Generated /\ Len(skills.card) = 1 /\ skills.extended = <<>>) =>
        LET card == AgentCardData(agent_card, skills.card)
            skill == CardSkillsNow[1]
        IN  /\ RenderedOnce(generated_code, "    name=", card.name)
            /\ RenderedOnce(generated_code, "    description=", card.description)
            /\ RenderedOnce(generated_code, "    url=", card.url)
            /\ RenderedOnce(generated_code, "    version=", card.version)
            /\ RenderedOnce(generated_code, "        id=", skill.id)
            /\ RenderedOnce(generated_code, "        name=", skill.name)
            /\ RenderedOnce(generated_code, "        description=", skill.description)
            /\ OverriddenOnce(generated_code, "name=", ExtendedNow.name)
            /\ OverriddenOnce(generated_code, "description=", ExtendedNow.description)
            /\ OverriddenOnce(generated_code, "version=", ExtendedNow.version)

\* A description with a line break and a double quote inside was emitted in
\* triple quotes, next to a one-line name in double quotes.
C14_Witness ==
    /\ outcome = Generated
    /\ agent_card.description = <<"d", NL, "\"", "d">>
    /\ agent_card.name = <<"a", " ", "b">>
    /\ ContainsSeq(generated_code,
           <<"    description=", "\"\"\"", "d", NL, "\"", "d", "\"\"\"", ",", NL>>)
    /\ ContainsSeq(generated_code,
           <<"    name=", "\"", "a", " ", "b", "\"", ",", NL>>)

\* The text the generator writes for the values now held by the widgets
\* (the values only: the identity of an entry widget is not among them).
EmissionNow ==
    Join(CodeLines(AgentCardData(agent_card, skills.card),
                   ExtendedCardData(extended_card, skills.extended),
                   ServerData(server),
                   RelationshipsData(relationships)))

\* C15: the text displayed after a successful generate request is the one
\* emission of the configuration it was asked for, whatever was generated,
\* refused, typed, added or removed before: it holds each section once,
\* nothing of an earlier emission, and depends on nothing but the values.
C15_EmissionDeterministic ==
    outcome = Generated =>
        /\ generated_code = EmissionNow
        /\ SelectSeq(generated_code, IsSectionHeader) = SectionHeaders
        /\ WholeEmission(generated_code)

\* An emission of a configuration whose one entry had been added and
\* removed again before the request.
C15_Witness ==
    /\ outcome = Generated
    /\ nextWid = 1
    /\ skills.card = <<>> /\ skills.extended = <<>> /\ relationships = <<>>
    /\ CountPiece(generated_code, "agent_skills = []") = 1

\* The server configuration now in the widgets, with the custom path erased.
ServerWithoutCustomText == [server EXCEPT !.custom_task_store = <<>>]

\* C16: with the InMemoryTaskStore option selected, a generate request ends
\* as it does when the custom path field is empty: the same warning, or the
\* same text, which has the three fixed imports only and InMemoryTaskStore()
\* as its task store.
C16_CustomTextIgnored ==
    (outcome # Idle /\ server.task_store_combo = "InMemoryTaskStore") =>
        LET agent_card_data == AgentCardData(agent_card, skills.card)
            extended_card_data == ExtendedCardData(extended_card, skills.extended)
            server_data == ServerData(ServerWithoutCustomText)
            message == Validate(agent_card_data, extended_card_data, server_data,
                                ServerWithoutCustomText.task_store_combo)
        IN  IF message # NoWarning
            THEN outcome = Warning(message)
            ELSE /\ outcome = Generated
                 /\ generated_code
                      = Join(CodeLines(agent_card_data, extended_card_data,
                                       server_data,
                                       RelationshipsData(relationships)))
                 /\ ImportSection(generated_code) = ImportLines
                 /\ TaskStoreArgument(generated_code) = <<"InMemoryTaskStore()">>

\* The option InMemoryTaskStore was emitted while the custom path field
\* held a dotted path.
C16_Witness ==
    /\ outcome = Generated
    /\ server.task_store_combo = "InMemoryTaskStore"
    /\ server.custom_task_store = <<"m", ".", "m", ".", "S">>
    /\ CountPiece(generated_code, "    task_store=") = 1

\* The executor class name as the handler reads it.
ExecutorNow == Strip(server.agent_executor)

\* C17: every emission instantiates the configured executor class, whose
\* name is not empty, as '<name>()'; the name the generator would fall back
\* on, MyAgentExecutor, is never written in its place.
C17_ConfiguredExecutor ==
    outcome = Generated =>
        /\ ExecutorNow # <<>>
        /\ LinesStarting(PhysicalLines(generated_code), "    agent_executor=")
             = << <<"    agent_executor=">> \o ExecutorNow
                    \o <<"(), # Assuming it's instantiated here">> >>
        /\ LinesStarting(PhysicalLines(generated_code),
                         "# TODO: Define your AgentExecutor class (e.g., ")
             = << <<"# TODO: Define your AgentExecutor class (e.g., ">>
                    \o ExecutorNow \o <<")">> >>
        /\ CountPiece(generated_code, "MyAgentExecutor") = 0

\* A name typed with blanks around it was emitted without them.
C17_Witness ==
    /\ outcome = Generated
    /\ server.agent_executor = <<" ", "M", " ">>
    /\ ContainsSeq(generated_code,
           <<"    agent_executor=", "M", "(), # Assuming it's instantiated here", NL>>)

=============================================================================
